---------------------------- MODULE Spec2Model ----------------------------
(* Model of Silly/main.c: the character-level lexer (gettok), the         *)
(* recursive-descent parser with precedence climbing, and the driver      *)
(* loop (main / MainLoop).  Characters are C int character codes, the     *)
(* parser functions are operators over a record holding the C globals.    *)
EXTENDS Integers, Sequences, FiniteSets, TLC

(* ---------------------------------------------------------------------- *)
(* Characters                                                             *)
(* ---------------------------------------------------------------------- *)

Lower == <<"a","b","c","d","e","f","g","h","i","j","k","l","m",
           "n","o","p","q","r","s","t","u","v","w","x","y","z">>
Upper == <<"A","B","C","D","E","F","G","H","I","J","K","L","M",
           "N","O","P","Q","R","S","T","U","V","W","X","Y","Z">>
Digit == <<"0","1","2","3","4","5","6","7","8","9">>

IndexIn(seq, c) == CHOOSE i \in DOMAIN seq : seq[i] = c

\* The character code of a one-character string (ASCII).
Ord(c) ==
    IF \E i \in DOMAIN Lower : Lower[i] = c THEN 96 + IndexIn(Lower, c)
    ELSE IF \E i \in DOMAIN Upper : Upper[i] = c THEN 64 + IndexIn(Upper, c)
    ELSE IF \E i \in DOMAIN Digit : Digit[i] = c THEN 47 + IndexIn(Digit, c)
    ELSE CASE c = " "  -> 32
           [] c = "\n" -> 10
           [] c = "\r" -> 13
           [] c = "\t" -> 9
           [] c = "#"  -> 35
           [] c = "("  -> 40
           [] c = ")"  -> 41
           [] c = "*"  -> 42
           [] c = "+"  -> 43
           [] c = ","  -> 44
           [] c = "-"  -> 45
           [] c = "."  -> 46
           [] c = ";"  -> 59
           [] c = "<"  -> 60
           [] c = "_"  -> 95
           [] c = "E9" -> 233    \* the byte 0xE9, outside ASCII

\* A text given as a tuple of one-character strings, as character codes.
Str(s) == [i \in DOMAIN s |-> Ord(s[i])]

\* getchar's end-of-file value.
EOF == -1

\* <ctype.h>, "C" locale, on int arguments.
isspace(c) == c \in 9..13 \/ c = 32
isalpha(c) == c \in 65..90 \/ c \in 97..122
isdigit(c) == c \in 48..57
isalnum(c) == isalpha(c) \/ isdigit(c)
isascii(c) == c \in 0..127

(* ---------------------------------------------------------------------- *)
(* Tokens and lexer state                                                 *)
(* ---------------------------------------------------------------------- *)

tok_eof == -1
tok_def == -2
tok_extern == -3
tok_identifier == -4
tok_number == -5

\* sizeof IdentifierStr, NumStr, IdName, Name, Callee: char[64].
BufSize == 64

\* A double written as a decimal: m * 10^(-e), with no trailing zero digit
\* in the fraction.
RECURSIVE Normal(_, _)
Normal(m, e) ==
    IF e > 0 /\ m % 10 = 0 THEN Normal(m \div 10, e - 1) ELSE [m |-> m, e |-> e]

Zero == [m |-> 0, e |-> 0]

\* First index j >= i of s with s[j] outside the set of codes cs (Len(s)+1 if none).
RECURSIVE SpanEnd(_, _, _)
SpanEnd(s, i, cs) ==
    IF i <= Len(s) /\ s[i] \in cs THEN SpanEnd(s, i + 1, cs) ELSE i

\* The decimal number written by the digits s[i..j-1], appended to acc.
RECURSIVE DigitsVal(_, _, _, _)
DigitsVal(s, i, j, acc) ==
    IF i >= j THEN acc ELSE DigitsVal(s, i + 1, j, acc * 10 + (s[i] - 48))

\* strtod(s, 0) on the C string s (the bytes before the terminating 0), for
\* strings without exponent, hexadecimal, inf or nan forms: optional white
\* space, optional sign, digits, optional '.' and digits; 0 when there is no
\* digit at all (no conversion).
strtod(s) ==
    LET Value(neg, sg, b, c) ==
            \* digits s[sg..b-1], then, when c > b, '.' and digits s[b+1..c-1]
            IF (b - sg) + (IF c > b THEN c - (b + 1) ELSE 0) = 0 THEN Zero
            ELSE Normal((IF neg THEN 0 - 1 ELSE 1)
                          * DigitsVal(s, b + 1, c, DigitsVal(s, sg, b, 0)),
                        IF c > b THEN c - (b + 1) ELSE 0)
        Fraction(neg, sg, b) ==
            Value(neg, sg, b,
                  IF b <= Len(s) /\ s[b] = 46 THEN SpanEnd(s, b + 1, 48..57) ELSE b)
        Digits(neg, sg) == Fraction(neg, sg, SpanEnd(s, sg, 48..57))
        Sign(a) ==
            Digits(a <= Len(s) /\ s[a] = 45,
                   IF a <= Len(s) /\ s[a] \in {43, 45} THEN a + 1 ELSE a)
    IN  Sign(SpanEnd(s, 1, {9, 10, 11, 12, 13, 32}))

\* The C string held by a byte array: the bytes before the first 0.
CStr(bytes) == SubSeq(bytes, 1, SpanEnd(bytes, 1, (0 - 1)..255 \ {0}) - 1)


\* What a char[64] array yields as a C string after the text t and its
\* terminating 0 were written from index 0 on.  When t does not fit, the
\* bytes written past the array lie in the neighbouring object, and a
\* later read finds there ("kept") the bytes written, ("zero") a 0 byte, or
\* ("other") some other byte and then a 0.
Spills == {"kept", "zero", "other"}

Stored(t, spill) ==
    IF Len(t) < BufSize \/ spill = "kept" THEN t
    ELSE IF spill = "zero" THEN SubSeq(t, 1, BufSize)
    ELSE Append(SubSeq(t, 1, BufSize), 255)

\* The arrays an out-of-range write has gone to, after writing index hi of
\* the array called name.
Written(oob, name, hi) == IF hi >= BufSize THEN oob \cup {name} ELSE oob

(* ---------------------------------------------------------------------- *)
(* gettok                                                                 *)
(* ---------------------------------------------------------------------- *)

\* LastChar = getchar(): the next character of the input, EOF after its end.
ReadChar(S) ==
    [S EXCEPT !.LastChar = IF S.nread < Len(S.input) THEN S.input[S.nread + 1]
                           ELSE EOF,
              !.nread = @ + 1]

\* The same loop skipping blanks only: while (LastChar == ' ') ...
RECURSIVE SkipSpace_BlanksOnly(_)
SkipSpace_BlanksOnly(S) ==
    IF S.LastChar = 32 THEN SkipSpace_BlanksOnly(ReadChar(S)) ELSE S

\* while (isspace(LastChar)) LastChar = getchar();
RECURSIVE SkipSpace(_)
SkipSpace(S) == IF isspace(S.LastChar) THEN SkipSpace(ReadChar(S)) ELSE S

\* The same loop with one more getchar() behind the identifier.
RECURSIVE LexIdent_SkipsDelimiter(_, _)
LexIdent_SkipsDelimiter(S, text) ==
    LET S1 == ReadChar(S)
    IN  IF isalnum(S1.LastChar)
        THEN LexIdent_SkipsDelimiter(S1, Append(text, S1.LastChar))
        ELSE [s |-> ReadChar(S1), text |-> text]

\* while (isalnum((LastChar = getchar()))) IdentifierStr[charIndex++] = LastChar;
RECURSIVE LexIdent(_, _)
LexIdent(S, text) ==
    LET S1 == ReadChar(S)
    IN  IF isalnum(S1.LastChar) THEN LexIdent(S1, Append(text, S1.LastChar))
        ELSE [s |-> S1, text |-> text]

\* do { NumStr[charIndex++] = LastChar; LastChar = getchar(); }
\* while (isdigit(LastChar) || LastChar == '.');
RECURSIVE LexNumber(_, _)
LexNumber(S, text) ==
    LET S1 == ReadChar(S)
        t1 == Append(text, S.LastChar)
    IN  IF isdigit(S1.LastChar) \/ S1.LastChar = 46 THEN LexNumber(S1, t1)
        ELSE [s |-> S1, text |-> t1]

\* do LastChar = getchar(); while (LastChar != EOF && LastChar != '\n' && LastChar != '\r');
RECURSIVE SkipComment(_)
SkipComment(S) ==
    LET S1 == ReadChar(S)
    IN  IF S1.LastChar \notin {EOF, 10, 13} THEN SkipComment(S1) ELSE S1

\* The strcmp chain on IdentifierStr.
Keyword(id) ==
    IF id = Str(<<"d","e","f">>) THEN tok_def
    ELSE IF id = Str(<<"e","x","t","e","r","n">>) THEN tok_extern
    ELSE tok_identifier

\* The bytes of the local NumStr from index 0 up to the terminating 0 the
\* code writes: charIndex starts at 1, so NumStr[0] is never written and
\* holds an indeterminate byte b0; the literal's text follows it.
NumStrBytes(b0, text) == <<b0>> \o text \o <<0>>

\* One record of the token history: the value gettok returned, the two
\* lexer outputs as they stand at the return, the input span the token's
\* text was taken from, the string handed to strtod (number tokens), and
\* LastChar and the number of getchar() calls made, at the return.
TokRec(tok, S, from, arg) ==
    [tok |-> tok, id |-> S.IdentifierStr, num |-> S.NumVal,
     from |-> from, upto |-> S.nread - 1, arg |-> arg,
     last |-> S.LastChar, nread |-> S.nread]

\* gettok returning tok in state S.
Return(S, tok, from, arg) ==
    [s |-> [S EXCEPT !.toks = Append(@, TokRec(tok, S, from, arg))], tok |-> tok]

\* gettok(): returns the state after the call and the token.
RECURSIVE gettok(_)

\* gettok with a getchar() in its end-of-file branch (eating the EOF).
gettok_EatsEof(S) ==
    LET Identifier(r, from) ==
            Return([r.s EXCEPT
                      !.IdentifierStr = Stored(r.text, S.spill),
                      !.oob = Written(@, "IdentifierStr", Len(r.text))],
                   Keyword(Stored(r.text, S.spill)), from, <<>>)
        Number(r, from) ==
            Return([r.s EXCEPT
                      !.NumVal = strtod(CStr(NumStrBytes(S.garbage[from], r.text))),
                      !.oob = Written(@, "NumStr", Len(r.text) + 1)],
                   tok_number, from, CStr(NumStrBytes(S.garbage[from], r.text)))
        Comment(S1) ==
            IF S1.LastChar # EOF THEN gettok(S1)
            ELSE Return(ReadChar(S1), tok_eof, S1.nread, <<>>)
        Lex(S0) ==
            IF isalpha(S0.LastChar) THEN
                Identifier(LexIdent(S0, <<S0.LastChar>>), S0.nread)
            ELSE IF isdigit(S0.LastChar) \/ S0.LastChar = 46 THEN
                Number(LexNumber(S0, <<>>), S0.nread)
            ELSE IF S0.LastChar = 35 THEN Comment(SkipComment(S0))
            ELSE IF S0.LastChar = EOF THEN Return(ReadChar(S0), tok_eof, S0.nread, <<>>)
            ELSE Return(ReadChar(S0), S0.LastChar, S0.nread, <<>>)
    IN  Lex(SkipSpace(S))

gettok(S) ==
    LET Identifier(r, from) ==
            Return([r.s EXCEPT
                      !.IdentifierStr = Stored(r.text, S.spill),
                      !.oob = Written(@, "IdentifierStr", Len(r.text))],
                   Keyword(Stored(r.text, S.spill)), from, <<>>)
        Number(r, from) ==
            Return([r.s EXCEPT
                      !.NumVal = strtod(CStr(NumStrBytes(S.garbage[from], r.text))),
                      !.oob = Written(@, "NumStr", Len(r.text) + 1)],
                   tok_number, from, CStr(NumStrBytes(S.garbage[from], r.text)))
        Comment(S1) ==
            IF S1.LastChar # EOF THEN gettok(S1)
            ELSE Return(S1, tok_eof, S1.nread, <<>>)
        Lex(S0) ==
            IF isalpha(S0.LastChar) THEN
                Identifier(LexIdent(S0, <<S0.LastChar>>), S0.nread)
            ELSE IF isdigit(S0.LastChar) \/ S0.LastChar = 46 THEN
                Number(LexNumber(S0, <<>>), S0.nread)
            ELSE IF S0.LastChar = 35 THEN Comment(SkipComment(S0))
            ELSE IF S0.LastChar = EOF THEN Return(S0, tok_eof, S0.nread, <<>>)
            ELSE Return(ReadChar(S0), S0.LastChar, S0.nread, <<>>)
    IN  Lex(SkipSpace(S))

\* getNextToken(): CurTok = gettok().
getNextToken(S) ==
    LET Assign(r) == [r.s EXCEPT !.CurTok = r.tok] IN Assign(gettok(S))

(* ---------------------------------------------------------------------- *)
(* Abstract syntax tree                                                   *)
(* ---------------------------------------------------------------------- *)

NULL == [node |-> "NULL"]
NumberExprAST(val) == [node |-> "Number", Val |-> val]
VariableExprAST(name) == [node |-> "Variable", Name |-> name]
BinaryExprAST(op, lhs, rhs) == [node |-> "Binary", Op |-> op, LHS |-> lhs, RHS |-> rhs]
CallExprAST(callee, args) ==
    [node |-> "Call", Callee |-> callee, Args |-> args, NumArgs |-> Len(args)]
PrototypeAST(name, args) ==
    [node |-> "Prototype", Name |-> name, Args |-> args, NumArgs |-> Len(args)]
FunctionAST(proto, body) == [node |-> "Function", Proto |-> proto, Body |-> body]
\* The arguments of a call while they are being collected (not a node).
ArgList(args) == [node |-> "ArgList", list |-> args]

(* ---------------------------------------------------------------------- *)
(* Parser                                                                 *)
(* ---------------------------------------------------------------------- *)

NUM_BINOPS == 4

\* The two tables as main() fills them before the first token is read.
BinopPrecedenceOperators == Str(<<"<", "+", "-", "*">>)
BinopPrecedencePrecedence == <<10, 20, 30, 40>>

\* for (i = 0; i < NUM_BINOPS; i++) if (CurTok == BinopPrecedenceOperators[i]) ...
RECURSIVE ScanBinops(_, _)
ScanBinops(tok, i) ==
    IF i > NUM_BINOPS THEN 0 - 1
    ELSE IF tok = BinopPrecedenceOperators[i] THEN
        (IF BinopPrecedencePrecedence[i] <= 0 THEN 0 - 1
         ELSE BinopPrecedencePrecedence[i])
    ELSE ScanBinops(tok, i + 1)

\* GetTokPrecedence(), on the current token.
GetTokPrecedence(tok) == IF ~isascii(tok) THEN 0 - 1 ELSE ScanBinops(tok, 1)

\* One line of stderr; `at` is the number of gettok calls made before it
\* was printed.
Line(S, text) == [text |-> text, at |-> Len(S.toks)]

\* fprintf(stderr, ...): text is the tuple of the pieces printed.
Fprintf(S, text) == [S EXCEPT !.stderr = Append(@, Line(S, text))]

IsError(line) == line.text[1] = "Error: "

\* Error(Str) and ErrorP(Str): print "Error: Str", return NULL.
Error(S, str) == [s |-> Fprintf(S, <<"Error: ", str>>), v |-> NULL]

\* strcpy into a char[64] destination called dst.
Strcpy(S, dst, text) == [S EXCEPT !.oob = Written(@, dst, Len(text))]

RECURSIVE ParseExpression(_)
RECURSIVE ParsePrimary(_)
RECURSIVE ParseBinOpRHS(_, _, _)
RECURSIVE ParseIdentifierExpr(_)
RECURSIVE ParseParenExpr(_)
RECURSIVE ParseArgs(_, _)

ParseNumberExpr(S) == [s |-> getNextToken(S), v |-> NumberExprAST(S.NumVal)]

\* ParseParenExpr without its second getNextToken (the ')' is not eaten).
ParseParenExpr_KeepsParen(S) ==
    LET Close(V) ==
            IF V.v = NULL THEN V
            ELSE IF V.s.CurTok # 41 THEN Error(V.s, "expected ')'")
            ELSE V
    IN  Close(ParseExpression(getNextToken(S)))

ParseParenExpr(S) ==
    LET Close(V) ==
            IF V.v = NULL THEN V
            ELSE IF V.s.CurTok # 41 THEN Error(V.s, "expected ')'")
            ELSE [s |-> getNextToken(V.s), v |-> V.v]
    IN  Close(ParseExpression(getNextToken(S)))

\* The while (1) loop over the arguments; args are those stored so far.
ParseArgs(S, args) ==
    LET Store(Arg) ==
            IF Arg.v = NULL THEN Arg
            ELSE IF Arg.s.CurTok = 41 THEN
                [s |-> [Arg.s EXCEPT !.oob = Written(@, "Args", Len(args))],
                 v |-> ArgList(Append(args, Arg.v))]
            ELSE IF Arg.s.CurTok # 44 THEN
                Error([Arg.s EXCEPT !.oob = Written(@, "Args", Len(args))],
                      "Expected ')' or ',' in argument list")
            ELSE ParseArgs(getNextToken(
                               [Arg.s EXCEPT !.oob = Written(@, "Args", Len(args))]),
                           Append(args, Arg.v))
    IN  Store(ParseExpression(S))

ParseIdentifierExpr(S) ==
    LET Close(a, IdName) ==
            IF a.v = NULL THEN a
            ELSE [s |-> getNextToken(a.s),
                  v |-> CallExprAST(Stored(IdName, S.spill), a.v.list)]
        Call(S2, IdName) ==
            Close(IF S2.CurTok # 41 THEN ParseArgs(S2, <<>>)
                  ELSE [s |-> S2, v |-> ArgList(<<>>)],
                  IdName)
        Follow(S1, IdName) ==
            IF S1.CurTok # 40 THEN
                [s |-> Strcpy(S1, "Name", IdName),
                 v |-> VariableExprAST(Stored(IdName, S.spill))]
            ELSE Call(Strcpy(getNextToken(S1), "Callee", IdName), IdName)
    IN  Follow(getNextToken(Strcpy(S, "IdName", S.IdentifierStr)),
               Stored(S.IdentifierStr, S.spill))

ParsePrimary(S) ==
    IF S.CurTok = tok_identifier THEN ParseIdentifierExpr(S)
    ELSE IF S.CurTok = tok_number THEN ParseNumberExpr(S)
    ELSE IF S.CurTok = 40 THEN ParseParenExpr(S)
    ELSE Error(S, "unknown token when expecting an expression")

ParseBinOpRHS(ExprPrec, LHS, S) ==
    LET Merge(TokPrec, BinOp, RHS) ==
            IF RHS.v = NULL THEN RHS
            ELSE ParseBinOpRHS(ExprPrec, BinaryExprAST(BinOp, LHS, RHS.v), RHS.s)
        Pending(TokPrec, BinOp, RHS) ==
            IF RHS.v = NULL THEN RHS
            ELSE Merge(TokPrec, BinOp,
                       IF TokPrec < GetTokPrecedence(RHS.s.CurTok)
                       THEN ParseBinOpRHS(TokPrec + 1, RHS.v, RHS.s)
                       ELSE RHS)
        Climb(TokPrec) ==
            IF TokPrec < ExprPrec THEN [s |-> S, v |-> LHS]
            ELSE Pending(TokPrec, S.CurTok, ParsePrimary(getNextToken(S)))
    IN  Climb(GetTokPrecedence(S.CurTok))

ParseExpression(S) ==
    LET Rest(LHS) == IF LHS.v = NULL THEN LHS ELSE ParseBinOpRHS(0, LHS.v, LHS.s)
    IN  Rest(ParsePrimary(S))

\* while (getNextToken() == tok_identifier) { Args[NumArgs] = malloc; strcpy; NumArgs++ }
RECURSIVE ProtoArgs(_, _)
ProtoArgs(S, args) ==
    LET Test(S1) ==
            IF S1.CurTok = tok_identifier THEN
                ProtoArgs([Strcpy(S1, "ArgName", S1.IdentifierStr)
                             EXCEPT !.oob = Written(@, "Args", Len(args))],
                          Append(args, Stored(S1.IdentifierStr, S.spill)))
            ELSE [s |-> S1, v |-> args]
    IN  Test(getNextToken(S))

ParsePrototype(S) ==
    LET Close(a, Name) ==
            IF a.s.CurTok # 41 THEN Error(a.s, "Expected ')' in prototype")
            ELSE [s |-> getNextToken(a.s), v |-> PrototypeAST(Name, a.v)]
        Open(S1, Name) ==
            IF S1.CurTok # 40 THEN Error(S1, "Expected '(' in prototype")
            ELSE Close(ProtoArgs(S1, <<>>), Name)
    IN  IF S.CurTok # tok_identifier
        THEN Error(S, "Expected function name in prototype")
        ELSE Open(getNextToken(Strcpy(S, "Name", S.IdentifierStr)),
                  Stored(S.IdentifierStr, S.spill))

\* ParseDefinition without its `if (!Proto) return NULL`.
ParseDefinition_NoProtoCheck(S) ==
    LET Body(Proto, E) ==
            IF E.v # NULL THEN [s |-> E.s, v |-> FunctionAST(Proto.v, E.v)] ELSE E
        Def(Proto) == Body(Proto, ParseExpression(Proto.s))
    IN  Def(ParsePrototype(getNextToken(S)))

ParseDefinition(S) ==
    LET Body(Proto, E) ==
            IF E.v # NULL THEN [s |-> E.s, v |-> FunctionAST(Proto.v, E.v)] ELSE E
        Def(Proto) ==
            IF Proto.v = NULL THEN Proto ELSE Body(Proto, ParseExpression(Proto.s))
    IN  Def(ParsePrototype(getNextToken(S)))

anon_expr == Str(<<"_","_","a","n","o","n","_","e","x","p","r">>)

\* ParseTopLevelExpr naming the prototype after the last identifier lexed.
ParseTopLevelExpr_NamedByIdentifier(S) ==
    LET Wrap(E) ==
            IF E.v # NULL
            THEN [s |-> E.s,
                  v |-> FunctionAST(PrototypeAST(E.s.IdentifierStr, <<>>), E.v)]
            ELSE E
    IN  Wrap(ParseExpression(S))

ParseTopLevelExpr(S) ==
    LET Wrap(E) ==
            IF E.v # NULL
            THEN [s |-> E.s, v |-> FunctionAST(PrototypeAST(anon_expr, <<>>), E.v)]
            ELSE E
    IN  Wrap(ParseExpression(S))

ParseExtern(S) == ParsePrototype(getNextToken(S))

(* ---------------------------------------------------------------------- *)
(* Program state                                                          *)
(* ---------------------------------------------------------------------- *)

VARIABLES
    input,          \* the characters on standard input
    garbage,        \* the byte found at NumStr[0], per literal start position
    spill,          \* what is read back of bytes written past a char[64]
    nread,          \* number of getchar() calls made
    LastChar,       \* gettok's static LastChar
    IdentifierStr,  \* the C string in IdentifierStr
    NumVal,         \* NumVal
    CurTok,         \* CurTok
    stderr,         \* the lines printed to stderr
    toks,           \* history: one record per gettok() call
    oob,            \* history: arrays written outside their bounds
    pc,             \* main's position: "main", "MainLoop", "exit"
    ret             \* history: what the last top-level parse returned

vars == <<input, garbage, spill, nread, LastChar, IdentifierStr, NumVal,
          CurTok, stderr, toks, oob, pc, ret>>

\* The C globals, the streams and the histories as one record.
Cur ==
    [input |-> input, garbage |-> garbage, spill |-> spill, nread |-> nread,
     LastChar |-> LastChar, IdentifierStr |-> IdentifierStr, NumVal |-> NumVal,
     CurTok |-> CurTok, stderr |-> stderr, toks |-> toks, oob |-> oob]

Become(S) ==
    /\ nread' = S.nread
    /\ LastChar' = S.LastChar
    /\ IdentifierStr' = S.IdentifierStr
    /\ NumVal' = S.NumVal
    /\ CurTok' = S.CurTok
    /\ stderr' = S.stderr
    /\ toks' = S.toks
    /\ oob' = S.oob
    /\ UNCHANGED <<input, garbage, spill>>

\* The state before main() runs, on input text with the given indeterminate
\* bytes: statics are zero, LastChar is ' '.
Start(text, g, sp) ==
    [input |-> text, garbage |-> g, spill |-> sp, nread |-> 0,
     LastChar |-> 32, IdentifierStr |-> <<>>, NumVal |-> Zero,
     CurTok |-> 0, stderr |-> <<>>, toks |-> <<>>, oob |-> {}]

(* ---------------------------------------------------------------------- *)
(* Inputs                                                                 *)
(* ---------------------------------------------------------------------- *)

\* Bounds of the generated inputs.
MaxLexemes == 3
MaxOps == 3

\* The indeterminate bytes tried for NumStr[0]: NUL, a space, the digit 1.
GarbageBytes == {0, 32, 49}

Lexemes ==
    { <<"d","e","f"," ">>, <<"e","x","t","e","r","n"," ">>, <<"a">>, <<"1">>,
      <<".">>, <<"(">>, <<")">>, <<",">>, <<"+">>, <<"*">>, <<";">>, <<" ">>,
      <<"#">>, <<"\n">> }

RECURSIVE Concat(_, _)
Concat(ss, i) == IF i > Len(ss) THEN <<>> ELSE ss[i] \o Concat(ss, i + 1)

\* Every concatenation of at most MaxLexemes lexemes.
LexemeTexts ==
    UNION { { Concat(ss, 1) : ss \in [1..n -> Lexemes] } : n \in 0..MaxLexemes }

\* p0 op1 p1 ... opn pn: the primaries are the literal 1 and then the
\* variables b, c, ..., the operators are any from the precedence table.
PrimaryText(i) == IF i = 0 THEN <<"1">> ELSE <<Lower[i + 1]>>

RECURSIVE ExprText(_, _)
ExprText(ops, i) ==
    IF i > Len(ops) THEN <<>>
    ELSE <<" ", ops[i], " ">> \o PrimaryText(i) \o ExprText(ops, i + 1)

ExprTexts ==
    UNION { { PrimaryText(0) \o ExprText(ops, 1) :
                ops \in [1..n -> {"<", "+", "-", "*"}] } : n \in 0..MaxOps }

\* An identifier of n letters.
LongName(n) == [i \in 1..n |-> "x"]

\* n one-letter names, each followed by sep but the last.
RECURSIVE Names(_, _)
Names(n, sep) ==
    IF n = 0 THEN <<>>
    ELSE IF n = 1 THEN <<"a">>
    ELSE <<"a", sep>> \o Names(n - 1, sep)

Samples ==
    { <<"1"," ","+"," ","2"," ","*"," ","3">>,
      <<"1"," ","*"," ","2"," ","+"," ","3">>,
      <<"1"," ","-"," ","2"," ","-"," ","3">>,
      <<"1"," ","+"," ","2"," ","-"," ","3">>,
      <<"f","o","o","(","1",","," ","2","+","3",")">>,
      <<"f","o","o","(",")">>,
      <<"f","o","o","(","b","a","r","(","x",")",","," ","y",")">>,
      <<"f","(","1"," ","2",")">>,
      <<"f","(","1",";">>,
      <<"d","e","f"," ","1"," ","2","\n","3","+","4">>,
      <<"#"," ","c","o","m","m","e","n","t","\n","4","2">>,
      <<"4","2">>,
      <<"#"," ","c">>,
      <<"D","e","f">>,
      <<"d","e","f","i","n","e">>,
      <<"e","x","t","e","r","n","s"," ","E","x","t","e","r","n">>,
      <<"3",".","1","4">>,
      <<"1",".","2",".","3">>,
      <<"a","1",".","5">>,
      <<"d","e","f"," ","f","(","a"," ","b",")"," ","a","+","b">>,
      <<"d","e","f"," ","f","(","a",","," ","b",")"," ","a">>,
      <<"d","e","f"," ","f","(","a"," ","1",")">>,
      <<"d","e","f"," ","f"," ","a">>,
      <<"d","e","f"," ","f","(","a",";">>,
      <<"d","e","f"," ","f","(",")"," ","(","1">>,
      <<"e","x","t","e","r","n"," ","g","(","x"," ","y",")",";">>,
      <<"e","x","t","e","r","n"," ","(">>,
      <<"(","1","+","2",")","*","3",";","x">>,
      <<"a"," ","E9"," ","b">>,
      <<"a"," ","E9","+","b","\r","<","\t","c">>,
      <<"e","x","t","e","r","n"," ","g","(">> \o Names(BufSize, " ") \o <<")">>,
      <<"e","x","t","e","r","n"," ","g","(">> \o Names(BufSize + 1, " ") \o <<")">>,
      LongName(BufSize - 1),
      LongName(BufSize) \o <<"(",")">>,
      <<"d","e","f"," ">> \o LongName(BufSize + 1) \o <<"(","a",")"," ","1">> }

Texts == LexemeTexts \cup ExprTexts \cup Samples

\* The tokens of a text: gettok called until it returns tok_eof.
RECURSIVE LexAll(_)
LexAll(S) ==
    LET More(r) == IF r.tok = tok_eof THEN r.s.toks ELSE LexAll(r.s)
    IN  More(gettok(S))

\* The positions at which gettok starts a numeric literal.
LiteralStarts(text) ==
    LET Of(ts) == { ts[k].from : k \in { j \in DOMAIN ts : ts[j].tok = tok_number } }
    IN  Of(LexAll(Start(text, [i \in 1..Len(text) |-> 0], "kept")))

\* Whether some identifier of the text does not fit IdentifierStr.
HasLongName(text) ==
    LET Of(ts) ==
            \E k \in DOMAIN ts : /\ ts[k].tok \in {tok_identifier, tok_def, tok_extern}
                                 /\ ts[k].upto - ts[k].from + 1 >= BufSize
    IN  Of(LexAll(Start(text, [i \in 1..Len(text) |-> 0], "kept")))

(* ---------------------------------------------------------------------- *)
(* main and MainLoop                                                      *)
(* ---------------------------------------------------------------------- *)

NoRet ==
    [form |-> "none", v |-> NULL, from |-> 0, upto |-> 0, after |-> 0,
     lines |-> <<>>, cur |-> 0]

Init ==
    /\ \E t \in Texts :
        /\ input = Str(t)
        /\ garbage \in [LiteralStarts(Str(t)) -> GarbageBytes]
        /\ spill \in (IF HasLongName(Str(t)) THEN Spills ELSE {"kept"})
    /\ nread = 0
    /\ LastChar = 32
    /\ IdentifierStr = <<>>
    /\ NumVal = Zero
    /\ CurTok = 0
    /\ stderr = <<>>
    /\ toks = <<>>
    /\ oob = {}
    /\ pc = "main"
    /\ ret = NoRet

\* What a handler records of the Parse* call it made: the form, the value
\* returned, the number of gettok calls made before the call (from), up to
\* its return (upto) and up to the handler's return (after), the lines
\* the call printed, and CurTok at the call's return.
Returned(form, S, r, T) ==
    [form |-> form, v |-> r.v, from |-> Len(S.toks), upto |-> Len(r.s.toks),
     after |-> Len(T.toks),
     lines |-> SubSeq(r.s.stderr, Len(S.stderr) + 1, Len(r.s.stderr)),
     cur |-> r.s.CurTok]

\* main(): fill the tables, print the prompt, prime the first token.
Main ==
    /\ pc = "main"
    /\ Become(getNextToken(Fprintf(Cur, <<"ready> ">>)))
    /\ pc' = "MainLoop"
    /\ UNCHANGED ret

\* MainLoop, case tok_eof: return.
MainLoopEof ==
    /\ pc = "MainLoop"
    /\ CurTok = tok_eof
    /\ Become(Fprintf(Cur, <<"ready> ">>))
    /\ pc' = "exit"
    /\ UNCHANGED ret

\* MainLoop, case ';': ignore top-level semicolons.
MainLoopSemicolon ==
    /\ pc = "MainLoop"
    /\ CurTok = 59
    /\ Become(getNextToken(Fprintf(Cur, <<"ready> ">>)))
    /\ UNCHANGED <<pc, ret>>

\* A Handle* function without the recovery skip in its else branch.
Handle_NoSkip(form, S, r, ack) ==
    LET Leave(T) ==
            /\ Become(T)
            /\ ret' = Returned(form, S, r, T)
            /\ UNCHANGED pc
    IN  Leave(IF r.v # NULL THEN Fprintf(r.s, <<ack>>) ELSE r.s)

\* A Handle* function: on success print the acknowledgement, on failure
\* skip one token.
Handle(form, S, r, ack) ==
    LET Leave(T) ==
            /\ Become(T)
            /\ ret' = Returned(form, S, r, T)
            /\ UNCHANGED pc
    IN  Leave(IF r.v # NULL THEN Fprintf(r.s, <<ack>>) ELSE getNextToken(r.s))

HandleDefinition ==
    /\ pc = "MainLoop"
    /\ CurTok = tok_def
    /\ Handle("definition", Fprintf(Cur, <<"ready> ">>),
              ParseDefinition(Fprintf(Cur, <<"ready> ">>)),
              "Parsed a function definition.\n")

HandleExtern ==
    /\ pc = "MainLoop"
    /\ CurTok = tok_extern
    /\ Handle("extern", Fprintf(Cur, <<"ready> ">>),
              ParseExtern(Fprintf(Cur, <<"ready> ">>)), "Parsed an extern\n")

HandleTopLevelExpression ==
    /\ pc = "MainLoop"
    /\ CurTok \notin {tok_eof, 59, tok_def, tok_extern}
    /\ Handle("toplevel", Fprintf(Cur, <<"ready> ">>),
              ParseTopLevelExpr(Fprintf(Cur, <<"ready> ">>)),
              "Parsed a top-level expr\n")

Next ==
    \/ Main
    \/ MainLoopEof
    \/ MainLoopSemicolon
    \/ HandleDefinition
    \/ HandleExtern
    \/ HandleTopLevelExpression

Spec == Init /\ [][Next]_vars

\* ENABLED <<Next>>_vars, written out: main takes one of the steps of Next
\* until it has returned (the cases of MainLoop's switch cover every value
\* of CurTok, and every step prints to stderr).
NextEnabled == pc # "exit"

\* The program keeps running: main is one sequential thread, so a step that
\* can be taken is taken.  This is WF_vars(Next), that is
\* []<>(~ENABLED <<Next>>_vars) \/ []<><<Next>>_vars, with NextEnabled for
\* ENABLED <<Next>>_vars.
FairSpec == Init /\ [][Next]_vars /\ ([]<>(~NextEnabled) \/ []<><<Next>>_vars)

(* ---------------------------------------------------------------------- *)
(* Properties                                                             *)
(* ---------------------------------------------------------------------- *)

\* The text of the k-th token read.
TextOf(k) == SubSeq(input, toks[k].from, toks[k].upto)

NumberToks == { k \in DOMAIN toks : toks[k].tok = tok_number }
NameToks ==
    { k \in DOMAIN toks : toks[k].tok \in {tok_def, tok_extern, tok_identifier} }

\* Whether input[i..j] is a maximal run of characters with codes in cs.
MaximalRun(i, j, cs) ==
    /\ 1 <= i /\ i <= j /\ j <= Len(input)
    /\ \A n \in i..j : input[n] \in cs
    /\ j = Len(input) \/ input[j + 1] \notin cs

NumChars == 48..57 \cup {46}
AlnumChars == 48..57 \cup 65..90 \cup 97..122

\* C2: every number token is lexed from a maximal run t of [0-9.], the
\* string handed to strtod is exactly t, and NumVal is the float parse of t.
C2_NumberIsParseOfItsText ==
    \A k \in NumberToks :
        /\ MaximalRun(toks[k].from, toks[k].upto, NumChars)
        /\ toks[k].arg = TextOf(k)
        /\ toks[k].num = strtod(TextOf(k))

\* What does hold of a number token: its text is the run of [0-9.] up to
\* its end, and the string handed to strtod is that text behind the byte
\* found at NumStr[0] (empty when that byte is 0).
NumberTokenShape ==
    \A k \in NumberToks :
        /\ MaximalRun(toks[k].from, toks[k].upto, NumChars)
        /\ toks[k].arg = CStr(<<garbage[toks[k].from]>> \o TextOf(k))
        /\ garbage[toks[k].from] = 32 => toks[k].num = strtod(TextOf(k))

\* C3: every identifier is lexed from a maximal alphanumeric run t that
\* starts with a letter; the token is tok_def exactly for "def", tok_extern
\* exactly for "extern", and otherwise tok_identifier with IdentifierStr = t.
C3_IdentifierCarriesItsText ==
    \A k \in NameToks :
        /\ MaximalRun(toks[k].from, toks[k].upto, AlnumChars)
        /\ isalpha(input[toks[k].from])
        /\ toks[k].tok = (IF TextOf(k) = Str(<<"d","e","f">>) THEN tok_def
                          ELSE IF TextOf(k) = Str(<<"e","x","t","e","r","n">>)
                               THEN tok_extern
                          ELSE tok_identifier)
        /\ toks[k].id = TextOf(k)

\* The same for the identifiers that fit IdentifierStr with their
\* terminating 0 (at most BufSize - 1 characters).
IdentifierUpTo63 ==
    \A k \in NameToks :
        toks[k].upto - toks[k].from + 1 < BufSize =>
            /\ MaximalRun(toks[k].from, toks[k].upto, AlnumChars)
            /\ isalpha(input[toks[k].from])
            /\ toks[k].tok = (IF TextOf(k) = Str(<<"d","e","f">>) THEN tok_def
                              ELSE IF TextOf(k) = Str(<<"e","x","t","e","r","n">>)
                                   THEN tok_extern
                              ELSE tok_identifier)
            /\ toks[k].id = TextOf(k)

\* The tokens of the whole input, the closing tok_eof included.
AllToks == LexAll(Start(input, garbage, spill))

\* The precedence table of the specification.
RefPrec(op) ==
    CASE op = 60 -> 10 [] op = 43 -> 20 [] op = 45 -> 30 [] op = 42 -> 40
      [] OTHER -> 0 - 1

\* Whether ts, without its closing tok_eof, reads p0 op1 p1 ... opn pn with
\* numbers and identifiers for primaries.
IsFlatExpr(ts) ==
    /\ Len(ts) % 2 = 0
    /\ \A i \in 1..(Len(ts) - 1) :
        IF i % 2 = 1 THEN ts[i].tok \in {tok_number, tok_identifier}
        ELSE RefPrec(ts[i].tok) > 0

\* A primary of the reference tree: from the token's text, or (lexed) from
\* the values the lexer delivered with the token.
RefLeaf(e, lexed) ==
    IF e.tok = tok_number
    THEN NumberExprAST(IF lexed THEN e.num ELSE strtod(SubSeq(input, e.from, e.upto)))
    ELSE VariableExprAST(IF lexed THEN e.id ELSE SubSeq(input, e.from, e.upto))

\* The operator at which the reference parser splits ts[lo..hi]: of lowest
\* precedence, and the rightmost of those (equal precedence groups left).
RefSplit(ts, lo, hi) ==
    CHOOSE k \in { j \in lo..hi : j % 2 = 0 } :
        \A j \in { i \in lo..hi : i % 2 = 0 } :
            \/ RefPrec(ts[k].tok) < RefPrec(ts[j].tok)
            \/ RefPrec(ts[k].tok) = RefPrec(ts[j].tok) /\ j <= k

RECURSIVE RefTree(_, _, _, _)
RefTree(ts, lo, hi, lexed) ==
    IF lo = hi THEN RefLeaf(ts[lo], lexed)
    ELSE LET Split(k) ==
                 BinaryExprAST(ts[k].tok, RefTree(ts, lo, k - 1, lexed),
                               RefTree(ts, k + 1, hi, lexed))
         IN  Split(RefSplit(ts, lo, hi))

\* The first top-level parse has returned and the input is a flat expression.
FlatExprParsed == ret.form = "toplevel" /\ ret.from = 1 /\ IsFlatExpr(AllToks)

\* C1: for an expression p0 op1 p1 ... opn pn, ParseExpression consumes all
\* of it and returns the tree of the reference precedence parser, whose
\* leaves are the primaries as written (1 is NumberLiteral(1)).
C1_TreeOfReferenceParser ==
    FlatExprParsed =>
        /\ ret.v # NULL
        /\ ret.upto = Len(AllToks)
        /\ ret.v.Body = RefTree(AllToks, 1, Len(AllToks) - 1, FALSE)

\* The grouping alone: the same tree, with the leaves the lexer delivered.
GroupingOfReferenceParser ==
    FlatExprParsed =>
        /\ ret.v # NULL
        /\ ret.upto = Len(AllToks)
        /\ ret.v.Body = RefTree(AllToks, 1, Len(AllToks) - 1, TRUE)

\* The primary an expression tree starts with.
RECURSIVE LeftMost(_)
LeftMost(ast) == IF ast.node = "Binary" THEN LeftMost(ast.LHS) ELSE ast

InputIs(t) == input = Str(t)

Num(n) == NumberExprAST([m |-> n, e |-> 0])

\* The first top-level parse was of an expression that starts with an
\* identifier, and it succeeded.
IdentifierExprParsed ==
    /\ ret.form = "toplevel" /\ ret.from = 1 /\ ret.v # NULL
    /\ toks[1].tok = tok_identifier

\* C4: an identifier not followed by '(' gives VariableRef(name); followed
\* by '(' it gives Call(callee, args) with the identifier before '(' as
\* callee and the argument expressions in source order; two arguments
\* without ',' or a missing ')' fail.
C4_VariableOrCall ==
    /\ IdentifierExprParsed /\ toks[2].tok # 40 =>
           LeftMost(ret.v.Body) = VariableExprAST(TextOf(1))
    /\ IdentifierExprParsed /\ toks[2].tok = 40 =>
           /\ LeftMost(ret.v.Body).node = "Call"
           /\ LeftMost(ret.v.Body).Callee = TextOf(1)
           /\ toks[3].tok = 41 => LeftMost(ret.v.Body).Args = <<>>
    /\ InputIs(<<"f","o","o","(","1",","," ","2","+","3",")">>) /\ ret.form # "none" =>
           ret.v.Body = CallExprAST(Str(<<"f","o","o">>),
                                    <<Num(1), BinaryExprAST(43, Num(2), Num(3))>>)
    /\ InputIs(<<"f","o","o","(","b","a","r","(","x",")",","," ","y",")">>)
         /\ ret.form # "none" =>
           ret.v.Body = CallExprAST(Str(<<"f","o","o">>),
                            <<CallExprAST(Str(<<"b","a","r">>),
                                          <<VariableExprAST(Str(<<"x">>))>>),
                              VariableExprAST(Str(<<"y">>))>>)
    /\ (InputIs(<<"f","(","1"," ","2",")">>) \/ InputIs(<<"f","(","1",";">>))
         /\ ret.from = 1 /\ ret.form # "none" =>
           /\ ret.v = NULL
           /\ ret.lines = <<[text |-> <<"Error: ", "Expected ')' or ',' in argument list">>,
                             at |-> ret.upto]>>

\* What does hold of calls and variables: the same, for names that fit a
\* char[64] and with the argument leaves as the lexer delivered them.
VariableOrCallUpTo63 ==
    /\ IdentifierExprParsed /\ toks[2].tok # 40 /\ Len(TextOf(1)) < BufSize =>
           LeftMost(ret.v.Body) = VariableExprAST(TextOf(1))
    /\ IdentifierExprParsed /\ toks[2].tok = 40 /\ Len(TextOf(1)) < BufSize =>
           /\ LeftMost(ret.v.Body).node = "Call"
           /\ LeftMost(ret.v.Body).Callee = TextOf(1)
           /\ toks[3].tok = 41 => LeftMost(ret.v.Body).Args = <<>>
    /\ InputIs(<<"f","o","o","(","1",","," ","2","+","3",")">>) /\ ret.form # "none" =>
           ret.v.Body = CallExprAST(Str(<<"f","o","o">>),
                            <<NumberExprAST(toks[3].num),
                              BinaryExprAST(43, NumberExprAST(toks[5].num),
                                            NumberExprAST(toks[7].num))>>)

ErrorLines(lines) == { i \in DOMAIN lines : IsError(lines[i]) }

\* C5: a top-level parse returns NULL exactly when an error was met; then
\* exactly one Error line was printed, nothing else, and no token was read
\* between the report and the return.
C5_FirstErrorAborts ==
    ret.form # "none" =>
        /\ (ret.v = NULL) <=> (ErrorLines(ret.lines) # {})
        /\ ret.v = NULL =>
            /\ Len(ret.lines) = 1
            /\ ret.lines[1].at = ret.upto

\* An error met three calls deep (ParseDefinition, ParseExpression,
\* ParsePrimary, ParseParenExpr) has unwound a definition.
C5_Witness ==
    /\ ret.form = "definition"
    /\ ret.v = NULL
    /\ ret.lines = <<[text |-> <<"Error: ", "expected ')'">>, at |-> ret.upto]>>
    /\ ret.upto > ret.from + 4

\* C6: a failed top-level parse is followed by exactly one getNextToken,
\* and on "def 1 2" then "3+4" the run prints exactly one error, for the
\* definition, and ends with a top-level expression BinaryOp('+', 3, 4).
C6_SkipOneTokenAndResume ==
    /\ ret.form # "none" /\ ret.v = NULL => ret.after = ret.upto + 1
    /\ InputIs(<<"d","e","f"," ","1"," ","2","\n","3","+","4">>) /\ pc = "exit" =>
        /\ Cardinality(ErrorLines(stderr)) = 1
        /\ stderr[3] = [text |-> <<"Error: ", "Expected function name in prototype">>,
                        at |-> 2]
        /\ ret.form = "toplevel"
        /\ ret.v # NULL
        /\ ret.v.Body = BinaryExprAST(43, Num(3), Num(4))

\* What does hold of the recovery: the same, with the literals of the last
\* expression as the lexer delivered them.
RecoveryResumes ==
    /\ ret.form # "none" /\ ret.v = NULL => ret.after = ret.upto + 1
    /\ ret.form # "none" /\ ret.v # NULL => ret.after = ret.upto
    /\ InputIs(<<"d","e","f"," ","1"," ","2","\n","3","+","4">>) /\ pc = "exit" =>
        /\ Cardinality(ErrorLines(stderr)) = 1
        /\ stderr[3] = [text |-> <<"Error: ", "Expected function name in prototype">>,
                        at |-> 2]
        /\ ret.form = "toplevel"
        /\ ret.v # NULL
        /\ ret.v.Body = BinaryExprAST(43, NumberExprAST(toks[4].num),
                                      NumberExprAST(toks[6].num))

\* What a token gives the parser: its kind, the identifier text and the
\* numeric value.
Seen(e) == [tok |-> e.tok, id |-> e.id, num |-> e.num]

\* The tokens the characters of a text stand for: every literal parsed from
\* its own text, every identifier whole.
TokensOf(text) ==
    LexAll(Start(text, [i \in 1..Len(text) |-> 32], "kept"))

\* The k-th token of a lexing ts: past its end gettok returns tok_eof again.
Nth(ts, k) == IF k <= Len(ts) THEN ts[k] ELSE ts[Len(ts)]

\* C7: the tokens gettok has returned so far are the first tokens the
\* input's characters stand for, whatever the parser did in between, each
\* read from the characters behind the previous one.
C7_TokensDependOnlyOnInput ==
    /\ \A k \in DOMAIN toks : Seen(toks[k]) = Seen(Nth(TokensOf(input), k))
    /\ \A k \in DOMAIN toks : k > 1 => toks[k].from > toks[k - 1].upto

\* What does hold: the parser and the driver's recovery never disturb the
\* lexer; the tokens read are the first tokens of lexing the input alone
\* (with the same bytes at NumStr[0]), spans included.
LexingIgnoresParser ==
    /\ \A k \in DOMAIN toks : toks[k] = Nth(AllToks, k)
    /\ \A k \in DOMAIN toks : k > 1 => toks[k].from > toks[k - 1].upto

\* The index of the line terminator that ends a comment starting at input[1]
\* (Len(input) + 1 when the comment runs to the end of the input).
CommentEnd == SpanEnd(input, 1, 0..255 \ {10, 13})

\* The input behind the comment and its line terminator.
BehindComment == SubSeq(input, CommentEnd + 1, Len(input))

StartsWithComment == Len(input) >= 1 /\ input[1] = 35

\* C8: lexing '#' c newline s yields the tokens of lexing s alone, whatever
\* NumStr[0] holds in either run; a comment running to the end of the
\* input yields tok_eof.
C8_CommentsAreSkipped ==
    StartsWithComment /\ pc = "exit" =>
        IF CommentEnd > Len(input) THEN \A k \in DOMAIN toks : toks[k].tok = tok_eof
        ELSE \A g \in [LiteralStarts(BehindComment) -> GarbageBytes] :
                 \A k \in DOMAIN toks :
                     Seen(toks[k]) = Seen(Nth(LexAll(Start(BehindComment, g, spill)), k))

\* What does hold: the same when the two runs find the same bytes at
\* NumStr[0].
CommentsAreSkippedSameGarbage ==
    StartsWithComment /\ pc = "exit" =>
        IF CommentEnd > Len(input) THEN \A k \in DOMAIN toks : toks[k].tok = tok_eof
        ELSE \A k \in DOMAIN toks :
                 Seen(toks[k]) =
                     Seen(Nth(LexAll(Start(BehindComment,
                                           [i \in LiteralStarts(BehindComment) |->
                                               garbage[i + CommentEnd]],
                                           spill)), k))

\* C9: a top-level expression step returns, when ParseExpression succeeds,
\* a Function whose prototype is named "__anon_expr" and has no parameters
\* and whose body is the expression parsed, and otherwise NULL.
C9_AnonymousWrapping ==
    [][pc = "MainLoop" /\ CurTok \notin {tok_eof, 59, tok_def, tok_extern} =>
         LET Wrapped(E) ==
                 IF E.v = NULL THEN ret'.v = NULL
                 ELSE /\ ret'.v.node = "Function"
                      /\ ret'.v.Proto.node = "Prototype"
                      /\ ret'.v.Proto.Name =
                           Str(<<"_","_","a","n","o","n","_","e","x","p","r">>)
                      /\ ret'.v.Proto.NumArgs = 0
                      /\ ret'.v.Proto.Args = <<>>
                      /\ ret'.v.Body = E.v
         IN  Wrapped(ParseExpression(Fprintf(Cur, <<"ready> ">>)))]_vars

\* A bare expression was wrapped after an identifier had been lexed.
C9_Witness ==
    /\ ret.form = "toplevel"
    /\ ret.v # NULL
    /\ ret.v.Body.node = "Binary"
    /\ IdentifierStr # <<>>

\* The tokens of the prototype a definition or an extern starts with: the
\* name is toks[ret.from + 1], '(' is toks[ret.from + 2].
ProtoName == ret.from + 1
ProtoOpen == ret.from + 2

\* The first token behind '(' that is no identifier.
RECURSIVE ParamsEnd(_)
ParamsEnd(k) == IF toks[k].tok = tok_identifier THEN ParamsEnd(k + 1) ELSE k

ErrorLine(str, at) == [text |-> <<"Error: ", str>>, at |-> at]

PrototypeParsed == ret.form \in {"definition", "extern"}

\* The prototype a definition or an extern has returned (NULL when none).
ProtoReturned ==
    IF ret.form = "extern" \/ ret.v = NULL THEN ret.v ELSE ret.v.Proto

\* C10: ParsePrototype accepts exactly identifier '(' identifier* ')' and
\* returns Prototype(name, params) with the ')' consumed; anything else in
\* the parameter list fails; a missing name, '(' and ')' are reported with
\* three different messages.
C10_PrototypeGrammar ==
    PrototypeParsed =>
        IF toks[ProtoName].tok # tok_identifier THEN
            /\ ret.v = NULL
            /\ ret.lines = <<ErrorLine("Expected function name in prototype", ProtoName)>>
        ELSE IF toks[ProtoOpen].tok # 40 THEN
            /\ ret.v = NULL
            /\ ret.lines = <<ErrorLine("Expected '(' in prototype", ProtoOpen)>>
        ELSE IF toks[ParamsEnd(ProtoOpen + 1)].tok # 41 THEN
            /\ ret.v = NULL
            /\ ret.lines = <<ErrorLine("Expected ')' in prototype",
                                       ParamsEnd(ProtoOpen + 1))>>
        ELSE
            /\ ret.upto > ParamsEnd(ProtoOpen + 1)
            /\ ret.form = "extern" => ret.v # NULL /\ ret.upto = ParamsEnd(ProtoOpen + 1) + 1
            /\ ret.v # NULL =>
                 ProtoReturned =
                     PrototypeAST(TextOf(ProtoName),
                                  [i \in 1..(ParamsEnd(ProtoOpen + 1) - ProtoOpen - 1) |->
                                       TextOf(ProtoOpen + i)])

\* What does hold of prototypes: the same, when the name and the parameter
\* names fit a char[64].
PrototypeGrammarUpTo63 ==
    PrototypeParsed =>
        IF toks[ProtoName].tok # tok_identifier THEN
            /\ ret.v = NULL
            /\ ret.lines = <<ErrorLine("Expected function name in prototype", ProtoName)>>
        ELSE IF toks[ProtoOpen].tok # 40 THEN
            /\ ret.v = NULL
            /\ ret.lines = <<ErrorLine("Expected '(' in prototype", ProtoOpen)>>
        ELSE IF toks[ParamsEnd(ProtoOpen + 1)].tok # 41 THEN
            /\ ret.v = NULL
            /\ ret.lines = <<ErrorLine("Expected ')' in prototype",
                                       ParamsEnd(ProtoOpen + 1))>>
        ELSE
            /\ ret.upto > ParamsEnd(ProtoOpen + 1)
            /\ ret.form = "extern" => ret.v # NULL /\ ret.upto = ParamsEnd(ProtoOpen + 1) + 1
            /\ ret.v # NULL /\ (\A k \in ProtoName..ParamsEnd(ProtoOpen + 1) :
                                   Len(TextOf(k)) < BufSize) =>
                 ProtoReturned =
                     PrototypeAST(TextOf(ProtoName),
                                  [i \in 1..(ParamsEnd(ProtoOpen + 1) - ProtoOpen - 1) |->
                                       TextOf(ProtoOpen + i)])

\* The five values of enum Token.
Sentinels == {tok_eof, tok_def, tok_extern, tok_identifier, tok_number}

\* The characters gettok never returns as themselves: white space, letters,
\* digits, '.' and '#'.
LexedChars == {9, 10, 11, 12, 13, 32} \cup AlnumChars \cup {46, 35}

CharToks == { k \in DOMAIN toks : toks[k].tok \notin Sentinels }

\* C11: every value gettok returns is one of the five negative sentinels or
\* a character code in 0..255, the two sets are disjoint, and a character
\* code is returned only for the one input character it is the code of,
\* which is no white space, letter, digit, '.' or '#'.
C11_SentinelOrCharacter ==
    /\ Cardinality(Sentinels) = 5
    /\ \A t \in Sentinels : t < 0
    /\ Sentinels \cap 0..255 = {}
    /\ \A k \in CharToks :
        /\ toks[k].tok \in 0..255
        /\ toks[k].from = toks[k].upto
        /\ toks[k].tok = input[toks[k].from]
        /\ toks[k].tok \notin LexedChars

\* The whole input was lexed, with white space of three kinds in it, and
\* gettok has returned sentinels, an ASCII character and the byte 0xE9.
C11_Witness ==
    /\ pc = "exit"
    /\ \E i, j, n \in DOMAIN input : input[i] = 13 /\ input[j] = 9 /\ input[n] = 32
    /\ \E k \in DOMAIN toks : toks[k].tok = tok_identifier
    /\ \E k \in CharToks : toks[k].tok = 233
    /\ \E k \in CharToks : toks[k].tok = 60

\* C12: every write gettok makes to IdentifierStr, the terminating 0
\* included, is at an index in 0..BufSize-1: an identifier of n characters
\* is stored at 0..n-1 and its terminating 0 at n, so n stays below BufSize.
C12_IdentifierWritesInBounds ==
    /\ "IdentifierStr" \notin oob
    /\ \A k \in NameToks : toks[k].upto - toks[k].from + 1 < BufSize

\* A top-level expression has returned successfully.
ExpressionParsed == ret.form = "toplevel" /\ ret.v # NULL

\* The top-level expression parsed starts with a number that a token of
\* precedence -1 follows.
NumberThenNoOperator ==
    /\ ret.form = "toplevel"
    /\ toks[ret.from].tok = tok_number
    /\ RefPrec(toks[ret.from + 1].tok) = 0 - 1

\* The table and the end of the climb, without the example.
ClimbEndsAtNoOperator ==
    /\ \A t \in (0 - 5)..255 : GetTokPrecedence(t) = RefPrec(t)
    /\ ExpressionParsed =>
           /\ ret.cur = toks[ret.upto].tok
           /\ RefPrec(ret.cur) = 0 - 1
           /\ ret.lines = <<>>
    /\ NumberThenNoOperator =>
           /\ ret.v # NULL
           /\ ret.v.Body = NumberExprAST(toks[ret.from].num)
           /\ ret.upto = ret.from + 1
           /\ ret.lines = <<>>

\* C13: GetTokPrecedence is 10 for '<', 20 for '+', 30 for '-', 40 for '*'
\* and -1 for every other token; ParseExpression stops in front of a token
\* of precedence -1, leaving it the current token and printing no error;
\* "1 + 2 - 3" parses as BinaryOp('+', 1, BinaryOp('-', 2, 3)).
C13_PrecedenceTable ==
    /\ ClimbEndsAtNoOperator
    /\ InputIs(<<"1"," ","+"," ","2"," ","-"," ","3">>) /\ ret.form # "none" =>
           ret.v.Body = BinaryExprAST(43, Num(1), BinaryExprAST(45, Num(2), Num(3)))

\* What does hold: the same, with the literals of the example as the lexer
\* delivered them.
PrecedenceTableAsLexed ==
    /\ ClimbEndsAtNoOperator
    /\ InputIs(<<"1"," ","+"," ","2"," ","-"," ","3">>) /\ ret.form # "none" =>
           ret.v.Body = BinaryExprAST(43, NumberExprAST(toks[1].num),
                                      BinaryExprAST(45, NumberExprAST(toks[3].num),
                                                    NumberExprAST(toks[5].num)))

\* What the stream delivers at position i: the i-th input character, and
\* EOF behind the last.
CharAt(i) == IF i <= Len(input) THEN input[i] ELSE EOF

\* The position of the last character of the k-th token's text, from the
\* input alone: the token starts at toks[k].from and is a run of
\* alphanumerics, a run of [0-9.], or one character.
TokenEnd(k) ==
    IF k \in NameToks THEN SpanEnd(input, toks[k].from, AlnumChars) - 1
    ELSE IF k \in NumberToks THEN SpanEnd(input, toks[k].from, NumChars) - 1
    ELSE toks[k].from

\* C14: when gettok returns a token other than tok_eof, LastChar is what
\* the stream delivers right behind the token's text, and exactly the
\* characters up to and including that one have been read; characters are
\* read in order, one per getchar(), and the next token starts at the
\* lookahead character or behind it (nothing is pushed back or read twice).
C14_LookaheadInvariant ==
    /\ \A k \in DOMAIN toks :
           toks[k].tok # tok_eof =>
               /\ toks[k].last = CharAt(TokenEnd(k) + 1)
               /\ toks[k].nread = TokenEnd(k) + 1
    /\ \A k \in DOMAIN toks :
           k > 1 => /\ toks[k].nread >= toks[k - 1].nread
                    /\ toks[k].from >= toks[k - 1].nread
    /\ nread >= 1 => LastChar = CharAt(nread)
    /\ toks # <<>> => nread = toks[Len(toks)].nread

\* Tokens of every kind were returned: an identifier with '(' behind it, a
\* single character, and a number at the very end of the input.
C14_Witness ==
    /\ \E k \in NameToks : toks[k].tok = tok_identifier /\ toks[k].last = 40
    /\ \E k \in CharToks : toks[k].tok = 41 /\ toks[k].last = 32
    /\ \E k \in NumberToks : toks[k].last = EOF /\ toks[k].nread = Len(input) + 1

\* The gettok calls at whose return the stream had delivered EOF.
AtEndOfInput == { k \in DOMAIN toks : toks[k].last = EOF }

\* C15: once getchar() has returned EOF, every later gettok call, the
\* parser's and the recovery skip's alike, returns tok_eof and calls
\* getchar() no more: EOF is delivered once and never read past.
C15_EofIsAbsorbing ==
    /\ \A k \in AtEndOfInput :
           \A j \in DOMAIN toks :
               j > k => /\ toks[j].tok = tok_eof
                        /\ toks[j].last = EOF
                        /\ toks[j].nread = toks[k].nread
    /\ \A k \in AtEndOfInput : toks[k].nread = Len(input) + 1
    /\ nread <= Len(input) + 1

\* A token that ended the input was followed by a parse that asked for a
\* token, failed at tok_eof, and by the recovery skip.
C15_Witness ==
    /\ ret.form # "none" /\ ret.v = NULL
    /\ ret.upto > ret.from
    /\ ret.after = ret.upto + 1
    /\ ret.from \in AtEndOfInput /\ toks[ret.from].tok # tok_eof
    /\ toks[ret.upto].tok = tok_eof
    /\ toks[ret.after].tok = tok_eof

\* C16: MainLoop eventually returns, it returns only with tok_eof as the
\* current token, and every iteration that starts with another current
\* token makes at least one gettok call (consumes a token).
C16_MainLoopReturns ==
    /\ <>(pc = "exit")
    /\ [](pc = "exit" => CurTok = tok_eof)
    /\ [][pc = "MainLoop" /\ CurTok # tok_eof =>
             pc' = "MainLoop" /\ Len(toks') > Len(toks)]_vars

\* MainLoop has returned after a failed parse with its recovery skip, a
\* top-level ';' and a successful parse.
C16_Witness ==
    /\ pc = "exit"
    /\ ErrorLines(stderr) # {}
    /\ \E k \in DOMAIN toks : toks[k].tok = 59
    /\ ret.form = "toplevel" /\ ret.v # NULL

\* The token kinds a tree was parsed from, in source order, parentheses
\* left out (a parenthesised expression leaves no node of its own).
RECURSIVE TokensOfTree(_)
RECURSIVE TokensOfArgs(_, _)
TokensOfTree(ast) ==
    CASE ast.node = "Number" -> <<tok_number>>
      [] ast.node = "Variable" -> <<tok_identifier>>
      [] ast.node = "Binary" ->
           TokensOfTree(ast.LHS) \o <<ast.Op>> \o TokensOfTree(ast.RHS)
      [] ast.node = "Call" -> <<tok_identifier>> \o TokensOfArgs(ast.Args, 1)
      [] ast.node = "Prototype" ->
           <<tok_identifier>> \o [i \in 1..ast.NumArgs |-> tok_identifier]
      [] ast.node = "Function" -> TokensOfTree(ast.Proto) \o TokensOfTree(ast.Body)

TokensOfArgs(args, i) ==
    IF i > Len(args) THEN <<>>
    ELSE (IF i > 1 THEN <<44>> ELSE <<>>) \o TokensOfTree(args[i])
             \o TokensOfArgs(args, i + 1)

\* The token kinds of the form a Parse* function returned: the keyword it
\* ate first, if any, and the tokens of the tree; the anonymous prototype
\* of a top-level expression stands for no token.
TokensOfForm(form, ast) ==
    CASE form = "definition" -> <<tok_def>> \o TokensOfTree(ast)
      [] form = "extern" -> <<tok_extern>> \o TokensOfTree(ast)
      [] form = "toplevel" -> TokensOfTree(ast.Body)
      [] OTHER -> TokensOfTree(ast)

IsNoParen(t) == t \notin {40, 41}

\* Whether the parentheses in ts[i..Len(ts)] close what is open (depth).
RECURSIVE Balanced(_, _, _)
Balanced(ts, i, depth) ==
    IF i > Len(ts) THEN depth = 0
    ELSE IF ts[i] = 40 THEN Balanced(ts, i + 1, depth + 1)
    ELSE IF ts[i] = 41 THEN depth > 0 /\ Balanced(ts, i + 1, depth - 1)
    ELSE Balanced(ts, i + 1, depth)

\* The kinds of the tokens gettok returned in calls lo..hi.
Kinds(ts, lo, hi) == [i \in 1..(hi - lo + 1) |-> ts[lo + i - 1].tok]

\* The postcondition of a Parse* function called in state S (whose current
\* token is the last one read) and returning r: on success the tokens from
\* the current one of S to the last but one read are those of the form
\* returned, and the last one read is the current token.
Lookahead(S, r, form) ==
    r.v # NULL =>
        /\ Len(r.s.toks) > Len(S.toks)
        /\ r.s.CurTok = r.s.toks[Len(r.s.toks)].tok
        /\ Balanced(Kinds(r.s.toks, Len(S.toks), Len(r.s.toks) - 1), 1, 0)
        /\ SelectSeq(Kinds(r.s.toks, Len(S.toks), Len(r.s.toks) - 1), IsNoParen)
             = TokensOfForm(form, r.v)

\* C17: whenever ParsePrimary, ParseExpression, ParsePrototype,
\* ParseDefinition, ParseExtern or ParseTopLevelExpr returns successfully,
\* called at any point MainLoop reaches, it has asked gettok for exactly the
\* tokens of the form it returns and one more, which is the current token;
\* the handler that made the call reads no token after a success.
C17_OneTokenLookahead ==
    [][pc = "MainLoop" =>
         /\ Lookahead(Cur, ParsePrimary(Cur), "primary")
         /\ Lookahead(Cur, ParseExpression(Cur), "expression")
         /\ Lookahead(Cur, ParseTopLevelExpr(Cur), "toplevel")
         /\ Lookahead(Cur, ParsePrototype(Cur), "prototype")
         /\ CurTok = tok_def => Lookahead(Cur, ParseDefinition(Cur), "definition")
         /\ CurTok = tok_extern => Lookahead(Cur, ParseExtern(Cur), "extern")
         /\ ret'.form # "none" /\ ret'.v # NULL =>
                /\ ret'.after = ret'.upto
                /\ ret'.cur = toks'[ret'.upto].tok
                /\ SelectSeq(Kinds(toks', ret'.from, ret'.upto - 1), IsNoParen)
                     = TokensOfForm(ret'.form, ret'.v)]_vars

\* An extern with two parameters was parsed and the ';' behind it is the
\* current token, the last one read.
C17_Witness ==
    /\ ret.form = "extern" /\ ret.v # NULL
    /\ ret.v.NumArgs = 2
    /\ ret.cur = 59 /\ CurTok = 59
    /\ Len(toks) = ret.upto /\ toks[ret.upto].tok = 59

\* The calls and the prototypes among the forms returned so far hold at
\* most BufSize arguments or parameters.
RECURSIVE MaxArgs(_)
MaxArgs(ast) ==
    CASE ast.node = "Binary" ->
           IF MaxArgs(ast.LHS) > MaxArgs(ast.RHS) THEN MaxArgs(ast.LHS)
           ELSE MaxArgs(ast.RHS)
      [] ast.node = "Call" -> ast.NumArgs
      [] ast.node = "Prototype" -> ast.NumArgs
      [] ast.node = "Function" -> 
           IF MaxArgs(ast.Proto) > MaxArgs(ast.Body) THEN MaxArgs(ast.Proto)
           ELSE MaxArgs(ast.Body)
      [] OTHER -> 0

\* C18: every write to Args[NumArgs], of a call's argument or a prototype's
\* parameter, is at an index in 0..BufSize-1, so that NumArgs never exceeds
\* BufSize, whatever the number of arguments or parameters in the input.
C18_ArgsWritesInBounds ==
    /\ "Args" \notin oob
    /\ MaxArgs(ret.v) <= BufSize

=============================================================================
